---- MODULE Spec2Model ----
(***************************************************************************)
(* SmartSparse: importance scoring and global top-k pruning                *)
(* (src/finalsmartsparse.py, the last SmartSparsePruner of the file and    *)
(* run_experiment).                                                        *)
(*                                                                         *)
(* Tensors are flattened to sequences.  Reals are fixed-point integers:    *)
(*   weights            in units of 1                                      *)
(*   gradients          in units of 1/GradDen                              *)
(*   normalised scores  in units of 1/ZScale                               *)
(*   entropies          in units of 1/EntDen                               *)
(*   alpha, beta, gamma in units of 1/wden: wden is WOne from construction *)
(*                      (the sentinel -1 is -WOne) until the adaptive      *)
(*                      computation divides the three by their sum, which  *)
(*                      is modelled exactly by making that sum the unit    *)
(*   fused scores       in units of 1/(wden*ZScale)                        *)
(*   sparsity           in units of 1/SparsityDen (dyadic, so that the     *)
(*                      double arithmetic of (1 - s) * N is exact)         *)
(***************************************************************************)
EXTENDS Integers, Sequences, FiniteSets, TLC

\* Python None (no tensor is empty and no record is)
None == << >>

GradDen == 1000
ZScale == 16
WOne == 100
EntDen == 64
SparsityDen == 4
Mantissa == 1024

(***************************************************************************)
(* Arithmetic helpers                                                      *)
(***************************************************************************)
Abs(x) == IF x < 0 THEN -x ELSE x

Sign(x) == IF x < 0 THEN -1 ELSE IF x > 0 THEN 1 ELSE 0

Max2(a, b) == IF a >= b THEN a ELSE b

\* Python int(): truncation toward zero of num/den, den > 0
TruncDiv(num, den) == IF num >= 0 THEN num \div den ELSE -((-num) \div den)

RECURSIVE SumSeq(_)
SumSeq(s) == IF s = << >> THEN 0 ELSE Head(s) + SumSeq(Tail(s))

SeqMin(s) == CHOOSE x \in {s[i] : i \in DOMAIN s} : \A j \in DOMAIN s : x <= s[j]

SeqMax(s) == CHOOSE x \in {s[i] : i \in DOMAIN s} : \A j \in DOMAIN s : x >= s[j]

\* floor of the square root
ISqrt(x) == CHOOSE r \in 0..(ZScale * 8) : r * r <= x /\ (r + 1) * (r + 1) > x

\* torch.round: nearest integer of num/den (num >= 0, den > 0), halves to even
RoundHalfEven(num, den) ==
    LET q == num \div den
        r == num % den
    IN  IF 2 * r < den THEN q
        ELSE IF 2 * r > den THEN q + 1
        ELSE IF q % 2 = 0 THEN q ELSE q + 1

\* a float keeps a bounded mantissa: halve all entries until the largest fits
RECURSIVE Reduce(_)
Reduce(s) ==
    IF \E i \in DOMAIN s : Abs(s[i]) > Mantissa
    THEN Reduce([i \in DOMAIN s |-> TruncDiv(s[i], 2)])
    ELSE s

(***************************************************************************)
(* The estimators and the normaliser                                       *)
(***************************************************************************)
Bits == 8

\* a quantiser with one level too many
QLevels_OffByOne == 2^Bits

QLevels == 2^Bits - 1

\* _normalize: (score - mean) / (std + 1e-8), std the unbiased standard
\* deviation.  With d[i] = n*score[i] - sum, the result is
\* d[i] / sqrt(sum(d^2)/(n-1)); it is 0 / 1e-8 = 0 when all d vanish.  The
\* 1e-8 is below the resolution 1/ZScale otherwise.
_normalize(score) ==
    LET n  == Len(score)
        d  == Reduce([i \in DOMAIN score |-> n * score[i] - SumSeq(score)])
        ss == SumSeq([i \in DOMAIN d |-> d[i] * d[i]])
    IN  IF ss = 0 THEN [i \in DOMAIN score |-> 0]
        ELSE [i \in DOMAIN score |->
                 Sign(d[i]) * ISqrt((d[i] * d[i] * ZScale * ZScale * (n - 1)) \div ss)]

\* _compute_pqi: squared error of the round trip through the uniform
\* quantiser on [qmin, qmax]; the result is in units of 1/QLevels^2.
\* scale = (qmax - qmin)/QLevels < 1e-9 holds for integer weights exactly
\* when qmax = qmin.
_compute_pqi(weight) ==
    LET qmin == SeqMin(weight)
        qmax == SeqMax(weight)
    IN  IF qmax - qmin = 0 THEN [i \in DOMAIN weight |-> 0]
        ELSE [i \in DOMAIN weight |->
                 LET q == RoundHalfEven((weight[i] - qmin) * QLevels, qmax - qmin)
                     e == (weight[i] - qmin) * QLevels - q * (qmax - qmin)
                 IN  e * e]

\* _compute_movement: |grad|
_compute_movement(grad) == [i \in DOMAIN grad |-> Abs(grad[i])]

\* _compute_hessian: weight^2 / (2 * clamp(grad^2, min=1e-6)).  grad^2 is in
\* units of 1/GradDen^2 = 1e-6, so the clamp floor is 1 unit.
_compute_hessian(weight, grad) ==
    [i \in DOMAIN weight |->
        (weight[i] * weight[i] * GradDen * GradDen)
            \div (2 * Max2(grad[i] * grad[i], 1))]

(***************************************************************************)
(* compute_entropy and the adaptive fusion weights                         *)
(***************************************************************************)
RECURSIVE Log2Floor(_)
Log2Floor(x) == IF x < 2 THEN 0 ELSE 1 + Log2Floor(x \div 2)

\* natural logarithm of an integer x >= 1 in units of 1/EntDen: the binary
\* logarithm, linear between powers of two, times ln 2
LnFix(x) ==
    LET k == Log2Floor(x)
    IN  ((EntDen * k + (EntDen * (x - 2^k)) \div 2^k) * 693) \div 1000

\* compute_entropy: min-max rescale, renormalise to sum 1, -sum(p*log(p+1e-8)).
\* With m[i] = t[i] - min(t) and M = sum(m) the probabilities are m[i]/M (all 0
\* for a constant tensor), and the entropy is sum(m[i]*(ln M - ln m[i]))/M.
compute_entropy(t) ==
    LET lo == SeqMin(t)
        m  == [i \in DOMAIN t |-> t[i] - lo]
        M  == SumSeq(m)
    IN  IF M = 0 THEN 0
        ELSE SumSeq([i \in DOMAIN t |->
                        IF m[i] = 0 THEN 0 ELSE m[i] * (LnFix(M) - LnFix(m[i]))]) \div M

\* float infinity
Infinity == 2^30

\* 1/E in units of 1/WOne.  A zero entropy is the float -0.0 (the negated sum
\* of zero terms), whose reciprocal is -inf.
Reciprocal(E) == IF E = 0 THEN -Infinity ELSE (WOne * EntDen) \div E

\* torch.clamp(weights, min=0.01)
ClampMin == WOne \div 100

\* torch.randn(3) * 0.01 as a function of the generator state, in units of
\* 1/WOne: the generator is deterministic given its state
RngStates == 3

Randn(state) ==
    [i \in 1..3 |-> ((state * 7 + i * 3) % 5) - 2]

\* the generator state after torch.randn(3)
RngAdvance(state) == (state + 1) % RngStates

\* torch.manual_seed(seed)
ManualSeed(seed) == seed % RngStates

\* lines 525-532 up to the division by the sum: the three clamped weights
AdaptiveWeights(pqi, move, hess, noise) ==
    LET inv == << Reciprocal(compute_entropy(pqi)),
                  Reciprocal(compute_entropy(move)),
                  Reciprocal(compute_entropy(hess)) >>
    IN  [i \in 1..3 |->
            IF inv[i] = -Infinity THEN ClampMin
            ELSE Max2(inv[i] + noise[i], ClampMin)]

\* the division by the sum forgotten: the weights stay in units of 1/WOne
NormalizedDen_Skipped(weights) == WOne

\* weights /= weights.sum(): the sum becomes the unit of the three weights
NormalizedDen(weights) == weights[1] + weights[2] + weights[3]

\* fused = alpha * pqi + beta * move + gamma * hess
Fuse(a, b, g, pqi, move, hess) ==
    [i \in DOMAIN pqi |-> a * pqi[i] + b * move[i] + g * hess[i]]

(***************************************************************************)
(* The model under the pruner: named modules and their parameters          *)
(***************************************************************************)
ModelNames == {"single", "mlp"}

\* model.named_modules(), in traversal order
named_modules(m) == IF m = "single" THEN << "fc" >> ELSE << "fc1", "norm", "fc2" >>

\* isinstance(module, nn.Linear)
IsLinear(name) == name \in {"fc", "fc1", "fc2"}

ModuleSet(m) == {named_modules(m)[i] : i \in DOMAIN named_modules(m)}

LinearModules(m) == {name \in ModuleSet(m) : IsLinear(name)}

\* from_pretrained: the weights of a freshly loaded model
Pretrained(m) ==
    IF m = "single" THEN [name \in {"fc"} |-> << 1, 2, 3, 4 >>]
    ELSE [name \in {"fc1", "norm", "fc2"} |->
            IF name = "fc1" THEN << 1, 2, 5 >>
            ELSE IF name = "norm" THEN << 1, 1 >>
            ELSE << 3, -1, 1 >>]

\* calibration inputs are identified by the number of calibration samples;
\* these are the inputs a caller of compute_importance_scores passes
Inputs == {100}

\* loss.backward(): the gradient each parameter receives for given inputs
Backward(m, inputs) ==
    IF m = "single"
    THEN [name \in {"fc"} |->
            IF inputs % 2 = 0 THEN << 100, 200, 300, 400 >> ELSE << 4, -3, 0, 1 >>]
    ELSE [name \in {"fc1", "norm", "fc2"} |->
            IF name = "fc1"
            THEN (IF inputs % 2 = 0 THEN << 3, -1, 2 >> ELSE << 1, 0, -4 >>)
            ELSE IF name = "norm" THEN << 1, 1 >>
            ELSE (IF inputs % 2 = 0 THEN << -2, 5, 1 >> ELSE << 6, 2, -3 >>)]

(***************************************************************************)
(* State                                                                   *)
(***************************************************************************)
VARIABLES
    model,             \* which model the pruner holds (self.model)
    weight,            \* module.weight.data of every named module
    grad,              \* module.weight.grad of every named module, or None
    alpha, beta, gamma,\* self.alpha, self.beta, self.gamma, in units of 1/wden
    wden,              \* the unit of alpha, beta, gamma (see the header)
    layerwise_scores,  \* self.layerwise_scores: layer name -> fused score
    pc,                \* "idle", "scoring" (inside the loop of
                       \* compute_importance_scores), "run_prune"
    idx,               \* position of the scoring loop in named_modules, else 0
    raised,            \* the exception the last prune call raised, or "none"
    torch_rng,         \* state of torch's global generator
    np_rng,            \* state of numpy's global generator
    run,               \* the run_experiment call in progress, or None
    ctor,              \* history: the (alpha, beta, gamma) the pruner was
                       \* constructed with
    last_run,          \* the record of the last completed run_experiment
    prev_run,          \* the record of the completed run before it
    op,                \* history: the last operation and its argument
    observed,          \* history: linear layers whose gradient the most recent
                       \* scoring pass observed
    fused_with,        \* history: the (alpha, beta, gamma, wden) each layer of
                       \* the current pass was fused with
    resolved_at,       \* history: the layers of the current pass at which the
                       \* adaptive triple was computed, in order
    mask,              \* history: the masks the last prune call applied
    passes,            \* number of scoring passes of this pruner
    prunes             \* number of prune calls of this pruner

vars == << model, weight, grad, alpha, beta, gamma, wden, layerwise_scores, pc, idx,
           raised, torch_rng, np_rng, run, last_run, prev_run, op, observed, ctor,
           fused_with, resolved_at, mask, passes, prunes >>

pruner_vars == << model, weight, grad, alpha, beta, gamma, wden, layerwise_scores >>

run_vars == << np_rng, run, last_run, prev_run >>

MaxPasses == 2
MaxPrunes == 2
NpStates == 3

\* alpha, beta, gamma a caller passes to the constructor, in units of 1/WOne:
\* the adaptive sentinel, PQI only, movement only
WeightChoices == { << -WOne, -WOne, -WOne >>, << WOne, 0, 0 >>, << 0, WOne, 0 >> }

\* sparsity arguments in units of 1/SparsityDen: -1/4 .. 5/4
Sparsities == -1 .. (SparsityDen + 1)

Seeds == {42, 43}

EmptyMap == [name \in {} |-> << >>]

Store(f, k, v) == [x \in DOMAIN f \cup {k} |-> IF x = k THEN v ELSE f[x]]

(***************************************************************************)
(* SmartSparsePruner.__init__                                              *)
(***************************************************************************)
Constructed(m, w) ==
    /\ model' = m
    /\ weight' = Pretrained(m)
    /\ grad' = [name \in ModuleSet(m) |-> None]
    /\ alpha' = w[1]
    /\ beta' = w[2]
    /\ gamma' = w[3]
    /\ ctor' = w
    /\ wden' = WOne
    /\ layerwise_scores' = EmptyMap
    /\ raised' = "none"
    /\ observed' = {}
    /\ fused_with' = EmptyMap
    /\ resolved_at' = << >>
    /\ mask' = EmptyMap
    /\ passes' = 0
    /\ prunes' = 0

\* the state a freshly constructed pruner is in
Fresh(m, w) ==
    /\ model = m
    /\ weight = Pretrained(m)
    /\ grad = [name \in ModuleSet(m) |-> None]
    /\ alpha = w[1]
    /\ beta = w[2]
    /\ gamma = w[3]
    /\ ctor = w
    /\ wden = WOne
    /\ layerwise_scores = EmptyMap
    /\ pc = "idle"
    /\ idx = 0
    /\ raised = "none"
    /\ run = None
    /\ last_run = None
    /\ prev_run = None
    /\ op = [name |-> "init", sparsity |-> 0]
    /\ observed = {}
    /\ fused_with = EmptyMap
    /\ resolved_at = << >>
    /\ mask = EmptyMap
    /\ passes = 0
    /\ prunes = 0

\* numpy's generator plays no part in the pruner's own operations: one state
\* stands for all of them
Init ==
    /\ \E m \in ModelNames, w \in WeightChoices : Fresh(m, w)
    /\ torch_rng \in 0 .. (RngStates - 1)
    /\ np_rng = 0

\* a caller loads a model and constructs a pruner on it
Construct(m, w) ==
    /\ pc = "idle"
    /\ Constructed(m, w)
    /\ op' = [name |-> "init", sparsity |-> 0]
    /\ UNCHANGED << pc, idx, torch_rng, run_vars >>

(***************************************************************************)
(* SmartSparsePruner.compute_importance_scores                             *)
(***************************************************************************)
\* lines 511-515: zero_grad, forward, backward.  A parameter that takes no part
\* in the backward pass (frozen, or unused by the forward pass) keeps grad None.
ScoreBegin(inputs, frozen) ==
    /\ pc = "idle"
    /\ passes < MaxPasses
    /\ grad' = [name \in ModuleSet(model) |->
                   IF name \in frozen THEN None ELSE Backward(model, inputs)[name]]
    /\ observed' = LinearModules(model) \ frozen
    /\ fused_with' = EmptyMap
    /\ resolved_at' = << >>
    /\ pc' = "scoring"
    /\ idx' = 1
    /\ passes' = passes + 1
    /\ op' = [name |-> "score", sparsity |-> 0]
    /\ UNCHANGED << model, weight, alpha, beta, gamma, wden, layerwise_scores, raised,
                    torch_rng, run_vars, ctor, mask, prunes >>

\* the loop of line 517 moves to the next module, or the call returns
LoopNext ==
    IF idx < Len(named_modules(model))
    THEN pc' = "scoring" /\ idx' = idx + 1
    ELSE pc' = (IF run = None THEN "idle" ELSE "run_prune") /\ idx' = 0

\* the sentinel test dropped: the triple is recomputed at every scored layer
IsAdaptive_Always(a, b, g, den) == TRUE

\* self.alpha == self.beta == self.gamma == -1
IsAdaptive(a, b, g, den) == a = b /\ b = g /\ g = -den

\* lines 518-536 for a linear module with a gradient
ScoreLayer ==
    /\ pc = "scoring"
    /\ LET name == named_modules(model)[idx]
       IN  /\ IsLinear(name)
           /\ grad[name] # None
           /\ LET w    == weight[name]
                  g    == grad[name]
                  pqi  == _normalize(_compute_pqi(w))
                  move == _normalize(_compute_movement(g))
                  hess == _normalize(_compute_hessian(w, g))
                  adaptive == IsAdaptive(alpha, beta, gamma, wden)
                  weights  == AdaptiveWeights(pqi, move, hess, Randn(torch_rng))
                  a == IF adaptive THEN weights[1] ELSE alpha
                  b == IF adaptive THEN weights[2] ELSE beta
                  c == IF adaptive THEN weights[3] ELSE gamma
                  d == IF adaptive THEN NormalizedDen(weights) ELSE wden
              IN  /\ alpha' = a
                  /\ beta' = b
                  /\ gamma' = c
                  /\ wden' = d
                  /\ torch_rng' = IF adaptive THEN RngAdvance(torch_rng) ELSE torch_rng
                  /\ layerwise_scores' =
                         Store(layerwise_scores, name, Fuse(a, b, c, pqi, move, hess))
                  /\ fused_with' = Store(fused_with, name, << a, b, c, d >>)
                  /\ resolved_at' = IF adaptive THEN Append(resolved_at, name)
                                    ELSE resolved_at
    /\ LoopNext
    /\ UNCHANGED << model, weight, grad, raised, run_vars, op, observed, ctor, mask,
                    passes, prunes >>

\* line 518 false: the module is no nn.Linear, or its weight has no gradient
SkipModule ==
    /\ pc = "scoring"
    /\ LET name == named_modules(model)[idx]
       IN  ~(IsLinear(name) /\ grad[name] # None)
    /\ LoopNext
    /\ UNCHANGED << pruner_vars, raised, torch_rng, run_vars, op, observed, ctor,
                    fused_with, resolved_at, mask, passes, prunes >>

(***************************************************************************)
(* SmartSparsePruner.prune                                                 *)
(***************************************************************************)
RECURSIVE SortDesc(_)
SortDesc(s) ==
    IF s = << >> THEN << >>
    ELSE LET mx == SeqMax(s)
             i  == CHOOSE j \in DOMAIN s : s[j] = mx
         IN  << mx >> \o SortDesc(SubSeq(s, 1, i - 1) \o SubSeq(s, i + 1, Len(s)))

\* largest=False: the k smallest scores, ascending
topk_Smallest(all_scores, k) ==
    [i \in 1 .. k |-> SortDesc(all_scores)[Len(all_scores) + 1 - i]]

\* torch.topk(all_scores, k, largest=True).values
topk(all_scores, k) == SubSeq(SortDesc(all_scores), 1, k)

\* torch.cat of a list of flattened tensors
RECURSIVE CatSeqs(_, _)
CatSeqs(parts, i) == IF i > Len(parts) THEN << >> ELSE parts[i] \o CatSeqs(parts, i + 1)

\* lines 539-545: the scores of the scored linear layers, concatenated in
\* traversal order
RECURSIVE CatScores(_, _, _)
CatScores(names, scores, i) ==
    IF i > Len(names) THEN << >>
    ELSE (IF IsLinear(names[i]) /\ names[i] \in DOMAIN scores
          THEN scores[names[i]] ELSE << >>) \o CatScores(names, scores, i + 1)

module_map(m, scores) ==
    {name \in ModuleSet(m) : IsLinear(name) /\ name \in DOMAIN scores}

\* the number to prune taken for the number to keep
KeepCount_Pruned(sparsity, numel) == TruncDiv(sparsity * numel, SparsityDen)

\* k = int((1 - sparsity) * all_scores.numel())
KeepCount(sparsity, numel) == TruncDiv((SparsityDen - sparsity) * numel, SparsityDen)

\* a strict comparison drops the weights that tie the threshold
MaskOf_Strict(scores, threshold) ==
    [i \in DOMAIN scores |-> IF scores[i] > threshold THEN 1 ELSE 0]

\* mask = (scores >= threshold).float()
MaskOf(scores, threshold) == [i \in DOMAIN scores |-> IF scores[i] >= threshold THEN 1 ELSE 0]

\* the mask copied over the weight instead of multiplied into it
ApplyMask_Copied(w, msk) == msk

\* module.weight.data.mul_(mask)
ApplyMask(w, msk) == [i \in DOMAIN w |-> w[i] * msk[i]]

\* a threshold of its own for every layer: the k-th largest of the layer's
\* scores, k the keep count of the layer
Threshold_PerLayer(m, w, scores, all_scores, sparsity) ==
    LET mm == module_map(m, scores)
        k  == KeepCount(sparsity, Len(all_scores))
    IN  IF k < 0 \/ k > Len(all_scores)
        THEN [raised |-> "RuntimeError", weight |-> w, mask |-> EmptyMap]
        ELSE IF k = 0
        THEN [raised |-> "IndexError", weight |-> w, mask |-> EmptyMap]
        ELSE LET kl(name) == Max2(1, KeepCount(sparsity, Len(scores[name])))
                 msk == [name \in mm |->
                            MaskOf(scores[name], topk(scores[name], kl(name))[kl(name)])]
             IN  [raised |-> "none",
                  weight |-> [name \in DOMAIN w |->
                                 IF name \in mm THEN ApplyMask(w[name], msk[name])
                                 ELSE w[name]],
                  mask |-> msk]

\* lines 546-550: the keep count, the threshold, the masks
Threshold(m, w, scores, all_scores, sparsity) ==
    LET mm == module_map(m, scores)
        k  == KeepCount(sparsity, Len(all_scores))
    IN  IF k < 0 \/ k > Len(all_scores)
        THEN \* torch.topk: k out of range
             [raised |-> "RuntimeError", weight |-> w, mask |-> EmptyMap]
        ELSE IF k = 0
        THEN \* .values[-1] of an empty tensor
             [raised |-> "IndexError", weight |-> w, mask |-> EmptyMap]
        ELSE LET threshold == topk(all_scores, k)[k]
                 msk == [name \in mm |-> MaskOf(scores[name], threshold)]
             IN  [raised |-> "none",
                  weight |-> [name \in DOMAIN w |->
                                 IF name \in mm THEN ApplyMask(w[name], msk[name])
                                 ELSE w[name]],
                  mask |-> msk]

\* an empty pool skipped silently instead of raising
prune_SkipEmpty(m, w, scores, sparsity) ==
    LET all_scores == CatScores(named_modules(m), scores, 1)
    IN  IF all_scores = << >>
        THEN [raised |-> "none", weight |-> w, mask |-> EmptyMap]
        ELSE Threshold(m, w, scores, all_scores, sparsity)

\* the whole of prune: the exception it raises (or "none"), the weights it
\* leaves and the masks it applied
prune(m, w, scores, sparsity) ==
    LET all_scores == CatScores(named_modules(m), scores, 1)
    IN  IF all_scores = << >>
        THEN \* torch.cat of an empty list
             [raised |-> "RuntimeError", weight |-> w, mask |-> EmptyMap]
        ELSE Threshold(m, w, scores, all_scores, sparsity)

Prune(sparsity) ==
    /\ pc = "idle"
    /\ prunes < MaxPrunes
    /\ LET r == prune(model, weight, layerwise_scores, sparsity)
       IN  /\ weight' = r.weight
           /\ raised' = r.raised
           /\ mask' = r.mask
    /\ prunes' = prunes + 1
    /\ op' = [name |-> "prune", sparsity |-> sparsity]
    /\ UNCHANGED << model, grad, alpha, beta, gamma, wden, layerwise_scores, pc, idx,
                    torch_rng, run_vars, observed, ctor, fused_with, resolved_at,
                    passes >>

(***************************************************************************)
(* run_experiment                                                          *)
(***************************************************************************)
\* np.random.randint(-10, 11) as a function of numpy's generator state
RandInt(state) == ((state * 7) % 21) - 10

NpAdvance(state) == (state + 1) % NpStates

\* lines 554-563 up to the loop of compute_importance_scores: seed torch,
\* draw the calibration size, load the model, construct the pruner, run the
\* backward pass on the calibration inputs
RunBegin(sparsity, w, seed) ==
    /\ pc = "idle"
    /\ LET n_calib == 100 + RandInt(np_rng)
       IN  /\ run' = [seed |-> seed, alpha |-> w[1], beta |-> w[2], gamma |-> w[3],
                      sparsity |-> sparsity, n_calib |-> n_calib]
           /\ grad' = Backward("mlp", n_calib)
           /\ observed' = LinearModules("mlp")
    /\ torch_rng' = ManualSeed(seed)
    /\ np_rng' = NpAdvance(np_rng)
    /\ model' = "mlp"
    /\ weight' = Pretrained("mlp")
    /\ alpha' = w[1]
    /\ beta' = w[2]
    /\ gamma' = w[3]
    /\ ctor' = w
    /\ wden' = WOne
    /\ layerwise_scores' = EmptyMap
    /\ raised' = "none"
    /\ fused_with' = EmptyMap
    /\ resolved_at' = << >>
    /\ mask' = EmptyMap
    /\ passes' = 1
    /\ prunes' = 0
    /\ pc' = "scoring"
    /\ idx' = 1
    /\ op' = [name |-> "score", sparsity |-> 0]
    /\ UNCHANGED << last_run, prev_run >>

\* lines 564-574: prune, then the evaluation, which changes no state
RunPrune ==
    /\ pc = "run_prune"
    /\ LET r == prune(model, weight, layerwise_scores, run.sparsity)
       IN  /\ weight' = r.weight
           /\ raised' = r.raised
           /\ mask' = r.mask
           /\ last_run' = [seed |-> run.seed, alpha |-> run.alpha, beta |-> run.beta,
                           gamma |-> run.gamma, sparsity |-> run.sparsity,
                           n_calib |-> run.n_calib, mask |-> r.mask]
    /\ prev_run' = last_run
    /\ run' = None
    /\ prunes' = prunes + 1
    /\ pc' = "idle"
    /\ op' = [name |-> "prune", sparsity |-> run.sparsity]
    /\ UNCHANGED << model, grad, alpha, beta, gamma, wden, layerwise_scores, idx,
                    torch_rng, np_rng, observed, ctor, fused_with, resolved_at,
                    passes >>

(***************************************************************************)
(* Specifications                                                          *)
(***************************************************************************)
\* the pruner driven through its public operations
Next ==
    \/ \E m \in ModelNames, w \in WeightChoices : Construct(m, w)
    \/ \E inputs \in Inputs, frozen \in SUBSET LinearModules(model) :
           ScoreBegin(inputs, frozen)
    \/ ScoreLayer
    \/ SkipModule
    \/ \E sparsity \in Sparsities : Prune(sparsity)

Spec == Init /\ [][Next]_vars

\* repeated experiment runs, as run_multi_seed and run_baseline make them
ExpNext ==
    \/ \E w \in WeightChoices, seed \in Seeds : RunBegin(2, w, seed)
    \/ ScoreLayer
    \/ SkipModule
    \/ RunPrune

\* before the first run: no pruner has scored anything, and both global
\* generators are in whatever state the session left them in
ExpInit ==
    /\ Fresh("mlp", << -WOne, -WOne, -WOne >>)
    /\ torch_rng \in 0 .. (RngStates - 1)
    /\ np_rng \in 0 .. (NpStates - 1)

ExpSpec == ExpInit /\ [][ExpNext]_vars

(***************************************************************************)
(* Vocabulary of the properties, defined on the state alone                *)
(***************************************************************************)
\* the linear layers of the model that have an entry in the fused-score mapping
ScoredLayers == {l \in DOMAIN layerwise_scores : l \in DOMAIN weight /\ IsLinear(l)}

\* the score pool: one position per scored weight
Positions == UNION {{<< l, i >> : i \in DOMAIN layerwise_scores[l]} : l \in ScoredLayers}

ScoreAt(p) == layerwise_scores[p[1]][p[2]]

PoolSize == Cardinality(Positions)

\* floor((1 - s) * N) for a sparsity s in units of 1/SparsityDen
FloorKeep(s) == ((SparsityDen - s) * PoolSize) \div SparsityDen

\* the k-th largest value of the pool, by counting
KthLargest(k) ==
    CHOOSE v \in {ScoreAt(p) : p \in Positions} :
        /\ Cardinality({p \in Positions : ScoreAt(p) > v}) < k
        /\ Cardinality({p \in Positions : ScoreAt(p) >= v}) >= k

PoolMax == CHOOSE v \in {ScoreAt(p) : p \in Positions} : \A p \in Positions : ScoreAt(p) <= v

\* the first module, in traversal order, that the scoring loop scores
FirstScored ==
    LET nm == named_modules(model)
        js == {j \in DOMAIN nm : IsLinear(nm[j]) /\ grad[nm[j]] # None}
    IN  nm[CHOOSE j \in js : \A j2 \in js : j <= j2]

AdaptiveSentinel == << -WOne, -WOne, -WOne >>

(***************************************************************************)
(* C1.  A prune call on a non-empty pool of N scores whose keep count       *)
(* k = floor((1-s)*N) lies in 1..N completes, keeps (mask 1, weight         *)
(* untouched) exactly the weights whose fused score is >= the k-th largest  *)
(* score of the pool over all scored layers, and zeroes all the others; the *)
(* number kept is at least k, and it is k when a single score equals the    *)
(* threshold.                                                              *)
(***************************************************************************)
C1_GlobalTopK ==
    [][ (op'.name = "prune" /\ PoolSize >= 1 /\ FloorKeep(op'.sparsity) \in 1 .. PoolSize)
        => LET k    == FloorKeep(op'.sparsity)
               thr  == KthLargest(k)
               kept == {p \in Positions : mask'[p[1]][p[2]] = 1}
           IN  /\ raised' = "none"
               /\ DOMAIN mask' = ScoredLayers
               /\ \A p \in Positions :
                     IF ScoreAt(p) >= thr
                     THEN mask'[p[1]][p[2]] = 1 /\ weight'[p[1]][p[2]] = weight[p[1]][p[2]]
                     ELSE mask'[p[1]][p[2]] = 0 /\ weight'[p[1]][p[2]] = 0
               /\ Cardinality(kept) >= k
               /\ (Cardinality({p \in Positions : ScoreAt(p) = thr}) = 1
                      => Cardinality(kept) = k) ]_vars

\* a prune over two scored layers that kept exactly k = 3 of 6 weights and
\* zeroed a weight that was not zero before
C1_Witness ==
    /\ op.name = "prune"
    /\ raised = "none"
    /\ prunes = 1
    /\ Cardinality(ScoredLayers) = 2
    /\ PoolSize = 6
    /\ FloorKeep(op.sparsity) = 3
    /\ Cardinality({p \in Positions : mask[p[1]][p[2]] = 1}) = 3
    /\ \E p \in Positions : mask[p[1]][p[2]] = 0 /\ Pretrained(model)[p[1]][p[2]] # 0

(***************************************************************************)
(* C2.  A prune call with sparsity 1.0 (k = 0) on a non-empty pool          *)
(* completes without raising, and leaves non-zero only weights whose fused  *)
(* score ties the maximum of the pool.                                     *)
(***************************************************************************)
C2_FullSparsityCompletes ==
    (op.name = "prune" /\ op.sparsity = SparsityDen /\ PoolSize >= 1)
        => /\ raised = "none"
           /\ \A p \in Positions : weight[p[1]][p[2]] # 0 => ScoreAt(p) = PoolMax

(***************************************************************************)
(* C3.  A prune call with sparsity 0.0 (k = N) on a non-empty pool          *)
(* completes without raising, the mask of every scored layer is all ones,   *)
(* and every weight keeps its value.                                       *)
(***************************************************************************)
C3_ZeroSparsityPrunesNothing ==
    [][ (op'.name = "prune" /\ op'.sparsity = 0 /\ PoolSize >= 1)
        => /\ raised' = "none"
           /\ DOMAIN mask' = ScoredLayers
           /\ \A p \in Positions : mask'[p[1]][p[2]] = 1
           /\ weight' = weight ]_vars

\* prune(0.0) completed on a pool of two scored layers with distinct scores
C3_Witness ==
    /\ op.name = "prune"
    /\ op.sparsity = 0
    /\ raised = "none"
    /\ Cardinality(ScoredLayers) = 2
    /\ \E p, q \in Positions : ScoreAt(p) # ScoreAt(q)
    /\ \A p \in Positions : mask[p[1]][p[2]] = 1

(***************************************************************************)
(* C4.  For a pruner constructed with alpha = beta = gamma = -1: in a       *)
(* scoring pass the triple is computed at most once, and only at the first  *)
(* linear layer with a gradient; in the pass that starts from the           *)
(* sentinels (the first pass) it is computed exactly once, there; every     *)
(* layer of the pass is fused with one and the same triple, which is the    *)
(* triple the pruner holds; alpha + beta + gamma = 1 and each is positive.  *)
(***************************************************************************)
C4_TripleFrozenWithinPass ==
    (ctor = AdaptiveSentinel /\ DOMAIN fused_with # {})
        => /\ Len(resolved_at) <= 1
           /\ (Len(resolved_at) = 1 => resolved_at[1] = FirstScored)
           /\ (passes = 1 => resolved_at = << FirstScored >>)
           /\ \A l \in DOMAIN fused_with : fused_with[l] = << alpha, beta, gamma, wden >>
           /\ alpha > 0 /\ beta > 0 /\ gamma > 0
           /\ alpha + beta + gamma = wden

\* a finished first adaptive pass over two scored layers, with unequal weights
C4_Witness ==
    /\ ctor = AdaptiveSentinel
    /\ pc = "idle"
    /\ passes = 1
    /\ DOMAIN fused_with = {"fc1", "fc2"}
    /\ resolved_at = << "fc1" >>
    /\ alpha # beta

(***************************************************************************)
(* C5.  Between operations, the fused-score mapping has an entry for a      *)
(* layer only if that layer is a linear layer whose gradient the most       *)
(* recent scoring pass observed.                                           *)
(***************************************************************************)
C5_ScoresOnlyFromLastPass ==
    pc = "idle" => \A l \in DOMAIN layerwise_scores : IsLinear(l) /\ l \in observed

(***************************************************************************)
(* C6.  A prune call on an empty score pool raises, and changes no weight.  *)
(***************************************************************************)
C6_EmptyPoolRaises ==
    [][ (op'.name = "prune" /\ PoolSize = 0)
        => raised' # "none" /\ weight' = weight ]_vars

\* prune raised after a scoring pass in which no linear layer had a gradient
C6_Witness ==
    /\ op.name = "prune"
    /\ PoolSize = 0
    /\ passes = 1
    /\ observed = {}
    /\ raised = "RuntimeError"

(***************************************************************************)
(* C7.  A prune call with a sparsity below 0 or above 1 raises, and         *)
(* changes no weight.                                                      *)
(***************************************************************************)
C7_InvalidSparsityRejected ==
    [][ (op'.name = "prune" /\ (op'.sparsity < 0 \/ op'.sparsity > SparsityDen))
        => raised' # "none" /\ weight' = weight ]_vars

(***************************************************************************)
(* C8.  The end-to-end example: the single linear layer [[1,2],[3,4]] with  *)
(* gradient [[0.1,0.2],[0.3,0.4]], alpha=1, beta=0, gamma=0, bit width 8,   *)
(* one scoring pass, then prune(0.5).                                      *)
(***************************************************************************)
C8_Case ==
    /\ model = "single"
    /\ ctor = << WOne, 0, 0 >>
    /\ Bits = 8
    /\ passes = 1
    /\ prunes = 1
    /\ pc = "idle"
    /\ op.name = "prune"
    /\ 2 * op.sparsity = SparsityDen
    /\ grad["fc"] = << 100, 200, 300, 400 >>

\* C8 as claimed: exactly two weights are kept and the other two are zeroed
C8_KeepsExactlyTwo ==
    C8_Case
        => /\ raised = "none"
           /\ Cardinality({i \in 1 .. 4 : mask["fc"][i] = 1}) = 2
           /\ Cardinality({i \in 1 .. 4 : weight["fc"][i] = 0}) = 2

\* C8 as amended: all four quantization errors are zero (every weight is on
\* the 8-bit grid of [1,4]), all four fused scores tie at the threshold, and
\* prune keeps all four weights
C8_KeepsAllFour ==
    C8_Case
        => /\ raised = "none"
           /\ layerwise_scores["fc"] = << 0, 0, 0, 0 >>
           /\ mask["fc"] = << 1, 1, 1, 1 >>
           /\ weight["fc"] = << 1, 2, 3, 4 >>

C8_Witness == C8_Case /\ raised = "none"

(***************************************************************************)
(* C9.  Two completed experiment runs with the same seed, the same          *)
(* fixed-mode weights and the same sparsity applied identical prune masks.  *)
(***************************************************************************)
C9_SameSeedSameMasks ==
    (/\ last_run # None
     /\ prev_run # None
     /\ last_run.seed = prev_run.seed
     /\ << last_run.alpha, last_run.beta, last_run.gamma >> # AdaptiveSentinel
     /\ << last_run.alpha, last_run.beta, last_run.gamma >>
            = << prev_run.alpha, prev_run.beta, prev_run.gamma >>
     /\ last_run.sparsity = prev_run.sparsity)
        => last_run.mask = prev_run.mask

(***************************************************************************)
(* C10.  A step of compute_importance_scores changes no weight.  A prune    *)
(* call leaves the fused-score mapping unchanged, leaves unchanged every    *)
(* weight of a layer without an entry in it and every weight whose mask is  *)
(* 1, and changes a weight only by setting it to zero, and then only a      *)
(* weight of a scored linear layer whose score is below that of every kept  *)
(* weight.                                                                 *)
(***************************************************************************)
C10_WeightsChangeOnlyByMasking ==
    [][ /\ (pc = "scoring" \/ pc' = "scoring") => weight' = weight
        /\ op'.name = "prune"
            => /\ layerwise_scores' = layerwise_scores
               /\ DOMAIN weight' = DOMAIN weight
               /\ \A l \in DOMAIN weight :
                     /\ DOMAIN weight'[l] = DOMAIN weight[l]
                     /\ l \notin DOMAIN layerwise_scores => weight'[l] = weight[l]
                     /\ \A i \in DOMAIN weight[l] :
                           \/ weight'[l][i] = weight[l][i]
                           \/ /\ weight'[l][i] = 0
                              /\ l \in ScoredLayers
                              /\ mask'[l][i] = 0
                              /\ \A q \in Positions :
                                    mask'[q[1]][q[2]] = 1 => ScoreAt(<< l, i >>) < ScoreAt(q)
               /\ \A p \in Positions :
                     (p[1] \in DOMAIN mask' /\ mask'[p[1]][p[2]] = 1)
                         => weight'[p[1]][p[2]] = weight[p[1]][p[2]] ]_vars

\* a prune that zeroed a non-zero weight of a scored layer while another
\* linear layer, unscored, kept non-zero weights
C10_Witness ==
    /\ op.name = "prune"
    /\ raised = "none"
    /\ prunes = 1
    /\ ScoredLayers = {"fc1"}
    /\ \E i \in DOMAIN weight["fc1"] :
           mask["fc1"][i] = 0 /\ weight["fc1"][i] = 0 /\ Pretrained(model)["fc1"][i] # 0
    /\ \E i \in DOMAIN weight["fc1"] : mask["fc1"][i] = 1 /\ weight["fc1"][i] # 0
    /\ weight["fc2"] = Pretrained(model)["fc2"]

(***************************************************************************)
(* C11.  A prune call that completes uses one threshold for all layers:     *)
(* the masks of the scored layers, laid end to end, are the mask obtained   *)
(* by thresholding all fused scores as one flat pool; the same kept set     *)
(* results when the pool is cut into two layers at any other place, when    *)
(* the two parts are traversed in the other order, and when the modules of  *)
(* the model are traversed in reverse.  (That a layer may keep a fraction   *)
(* other than 1-s is the case C11_Witness reaches.)                         *)
(***************************************************************************)
Reverse(s) == [i \in DOMAIN s |-> s[Len(s) + 1 - i]]

\* lines 545-549 on a pool given as a sequence of layers' scores, in the
\* order they are concatenated: the mask of every layer
PruneParts(parts, sparsity) ==
    LET all_scores == CatSeqs(parts, 1)
        k == KeepCount(sparsity, Len(all_scores))
        threshold == topk(all_scores, k)[k]
    IN  [i \in DOMAIN parts |-> MaskOf(parts[i], threshold)]

C11_GlobalThreshold ==
    [][ (op'.name = "prune" /\ raised' = "none")
        => LET nm   == named_modules(model)
               s    == op'.sparsity
               pool == CatScores(nm, layerwise_scores, 1)
               N    == Len(pool)
               flat == PruneParts(<< pool >>, s)[1]
           IN  /\ CatScores(nm, mask', 1) = flat
               /\ \A c \in 0 .. N :
                     LET head == SubSeq(pool, 1, c)
                         tail == SubSeq(pool, c + 1, N)
                         fwd  == PruneParts(<< head, tail >>, s)
                         bwd  == PruneParts(<< tail, head >>, s)
                     IN  fwd[1] \o fwd[2] = flat /\ bwd[2] \o bwd[1] = flat
               /\ Threshold(model, weight, layerwise_scores,
                            CatScores(Reverse(nm), layerwise_scores, 1), s)
                      = [raised |-> "none", weight |-> weight', mask |-> mask'] ]_vars

\* prune(0.5) over two scored layers of three weights each kept k = 3 weights
\* in all: two of one layer and one of the other, so that no layer's kept
\* fraction is 1/2 and one layer keeps more than floor(3/2) weights
C11_Witness ==
    /\ op.name = "prune"
    /\ raised = "none"
    /\ 2 * op.sparsity = SparsityDen
    /\ ScoredLayers = {"fc1", "fc2"}
    /\ Cardinality({p \in Positions : mask[p[1]][p[2]] = 1}) = FloorKeep(op.sparsity)
    /\ \E l1, l2 \in ScoredLayers :
           /\ Cardinality({i \in DOMAIN mask[l1] : mask[l1][i] = 1}) = 2
           /\ Cardinality({i \in DOMAIN mask[l2] : mask[l2][i] = 1}) = 1
    /\ \A l \in ScoredLayers :
           SparsityDen * Cardinality({i \in DOMAIN mask[l] : mask[l][i] = 1})
               # (SparsityDen - op.sparsity) * Len(mask[l])

(***************************************************************************)
(* C12.  In every step of one pruner (any step but the construction of a    *)
(* new one): if the pruner was constructed in fixed mode, alpha, beta and   *)
(* gamma keep the constructor's values; if it was constructed with the      *)
(* sentinels and a scoring pass has already replaced them, the step leaves  *)
(* alpha, beta, gamma unchanged, computes no triple (no draw from the       *)
(* generator), leaves the pruner resolved, and a layer the step scores is   *)
(* fused with that triple; the sentinels are replaced only by a scoring     *)
(* step, and then by a triple that is not the sentinel triple.              *)
(***************************************************************************)
Triple == << alpha, beta, gamma, wden >>

Unresolved == Triple = << -WOne, -WOne, -WOne, WOne >>

C12_ResolvedOnce ==
    [][ op'.name # "init"
        => /\ ctor' = ctor
           /\ ctor # AdaptiveSentinel
                 => /\ Triple = << ctor[1], ctor[2], ctor[3], WOne >>
                    /\ Triple' = Triple
           /\ (ctor = AdaptiveSentinel /\ ~Unresolved)
                 => /\ Triple' = Triple
                    /\ ~Unresolved'
                    /\ resolved_at' \in {resolved_at, << >>}
                    /\ torch_rng' = torch_rng
                    /\ \A l \in DOMAIN fused_with' :
                          (l \notin DOMAIN fused_with \/ pc = "idle")
                              => fused_with'[l] = Triple
           /\ (ctor = AdaptiveSentinel /\ Unresolved /\ Triple' # Triple)
                 => /\ pc = "scoring"
                    /\ ~Unresolved'
                    /\ Len(resolved_at') = Len(resolved_at) + 1 ]_vars

\* a pruner constructed with the sentinels has finished a second scoring
\* pass that scored both layers, computed no triple, and followed a prune call
C12_Witness ==
    /\ ctor = AdaptiveSentinel
    /\ ~Unresolved
    /\ passes = 2
    /\ pc = "idle"
    /\ op.name = "score"
    /\ prunes = 1
    /\ DOMAIN fused_with = {"fc1", "fc2"}
    /\ resolved_at = << >>

(***************************************************************************)
(* C13.  When a prune call that completed is directly followed (no scoring  *)
(* pass in between) by a second prune call that completes, on weights that  *)
(* only the first call has touched: the kept set of the call with the       *)
(* larger sparsity is a subset of the kept set of the other; the weights    *)
(* left are those a single prune call with the larger of the two            *)
(* sparsities leaves on the loaded weights, whichever call came first; and  *)
(* with equal sparsities the second call changes no weight.                 *)
(***************************************************************************)
\* the weights one prune(s) call leaves on the loaded weights, by counting
PrunedOnce(s) ==
    [l \in DOMAIN weight |->
        IF l \in ScoredLayers
        THEN [i \in DOMAIN weight[l] |->
                 IF layerwise_scores[l][i] >= KthLargest(FloorKeep(s))
                 THEN Pretrained(model)[l][i] ELSE 0]
        ELSE Pretrained(model)[l]]

C13_PrunesCompose ==
    [][ (/\ op.name = "prune" /\ raised = "none" /\ prunes = 1
         /\ op'.name = "prune" /\ raised' = "none")
        => LET s1 == op.sparsity
               s2 == op'.sparsity
           IN  /\ layerwise_scores' = layerwise_scores
               /\ DOMAIN mask' = DOMAIN mask
               /\ s1 <= s2 => \A p \in Positions :
                                  mask'[p[1]][p[2]] = 1 => mask[p[1]][p[2]] = 1
               /\ s2 <= s1 => \A p \in Positions :
                                  mask[p[1]][p[2]] = 1 => mask'[p[1]][p[2]] = 1
               /\ weight' = PrunedOnce(IF s1 <= s2 THEN s2 ELSE s1)
               /\ s1 = s2 => weight' = weight ]_vars

\* after one scoring pass of two layers, prune(0.5) and then prune(0.25): the
\* second call's mask keeps four weights, the three of the first call among
\* them, and three weights are left
C13_Witness ==
    /\ passes = 1
    /\ prunes = 2
    /\ op.name = "prune"
    /\ raised = "none"
    /\ op.sparsity = 1
    /\ ScoredLayers = {"fc1", "fc2"}
    /\ Cardinality({p \in Positions : mask[p[1]][p[2]] = 1}) = 4
    /\ Cardinality({p \in Positions : weight[p[1]][p[2]] # 0}) = 3
    /\ weight = PrunedOnce(2)
====
